---------------------------- MODULE Spec2Model ----------------------------
(***************************************************************************)
(* A model of the step sequencer of react-synth                            *)
(* (src/src/components/StepSequencer.tsx) and of the Tone.js objects it    *)
(* drives: the global Transport, the Parts kept in partsRef, the Draw      *)
(* queue and the voices of the track synths; and of the settings dialog    *)
(* of a track (SynthControls in src/src/components/GridVisualizer.tsx).    *)
(*                                                                         *)
(* Times are exact rationals [n, d] (seconds, or beats of the Transport);   *)
(* d = 0 stands for the values of JavaScript that are not finite.          *)
(* A value of Math.random() is a draw r in 0..999 standing for r/1000.     *)
(***************************************************************************)
EXTENDS Integers, Sequences, FiniteSets, TLC

VARIABLES
    mounted,          \* the StepSequencer component is mounted
    bpm,              \* React state bpm
    metronomeEnabled, \* React state metronomeEnabled
    isPlaying,        \* React state isPlaying
    currentStep,      \* React state currentStep
    heap,             \* the step arrays (rows) of the sequence, by identity
    sequence,         \* React state sequence: the outer array, a list of row ids
    sequenceRef,      \* sequenceRef.current
    arpeggioState,    \* arpeggioStateRef.current
    parts,            \* partsRef.current
    liveParts,        \* every Tone.Part constructed and not yet disposed
    gen,              \* number of createParts calls so far
    pending,          \* start() calls suspended at `await Tone.start()`
    tState,           \* Tone.Transport.state
    tBpm,             \* Tone.Transport.bpm.value
    tTicks,           \* Transport position (beats) the clock has dispatched up to
    tFired,           \* the events at tTicks themselves have been dispatched
    scheduled,        \* dispatched instants the audio clock has not reached yet
    voices,           \* per track, the voices of its synth that are not silent
    gestures,         \* number of user gestures handled so far
    dlgOpen,          \* isOpen of the SynthControls dialog of the active track
    params,           \* React state params of SynthControls
    trackSettings,    \* the saved settings of the active track
    previewTimer,     \* the age of the timeout previewTimeoutRef holds, or NoTimer
    previews,         \* playPreview calls suspended at `await Tone.start()`
    synthVoices,      \* the voices (_voices) of the active track's PolySynth
    chain,            \* the settings on the track's filter and effect nodes
    clock,            \* the audio clock (context.now()), in tenths of a second
    pool,             \* the DualOscVoice instances of one PolySynth, as it holds them
    notesAsked,       \* number of triggerAttackRelease calls made on that synth
    melody,           \* the locals of a running getMelodyPattern call
    synthsReady,      \* every track of the tracks prop has its synth
    reported,         \* number of errors start() has reported
    trackMute,        \* trackMutes of the active track
    trackVolume,      \* trackVolumes of the active track, in dB
    synthVolume,      \* synth.volume of the active track's PolySynth
    lfoAmp,           \* params asks for an LFO on the amplitude (amount and rate > 0)
    atOpen,           \* what the track had when the open dialog was opened
    oscVoice          \* the oscMix setting of a track and the gains of a voice built with it

reactVars == <<mounted, bpm, metronomeEnabled, isPlaying, currentStep>>
seqVars == <<heap, sequence, sequenceRef>>
partVars == <<arpeggioState, parts, liveParts, gen>>
toneVars == <<tState, tBpm, tTicks, tFired>>
audioVars == <<scheduled, voices>>
poolVars == <<clock, pool, notesAsked>>
trackVars == <<reactVars, seqVars, partVars, pending, toneVars, audioVars, gestures>>
mixVars == <<trackMute, trackVolume, synthVolume, lfoAmp>>
hostVars == <<synthsReady, reported, mixVars, atOpen>>
sideVars == <<poolVars, melody, hostVars, oscVoice>>
sequencerVars == <<trackVars, sideVars>>
dialogVars == <<dlgOpen, params, trackSettings, previewTimer, previews, synthVoices, chain>>
vars == <<sequencerVars, dialogVars>>

---------------------------------------------------------------------------
(* Bounds of the model and constants of the program *)

\* constants of the program
stepsPerBar == 8
MaxTuplet == 8
DefaultBpm == 60
MinBpm == 20
MaxBpm == 240

\* bounds of the model. The program has four tracks and a polyphony of 128 per
\* synth; the model keeps both small
numTracks == 2
maxPolyphony == 2
\* the distance between the tempos createParts is examined at
TempoStride == 44
\* createParts calls, suspended start() calls, and user gestures in one behaviour
MaxGen == 3
MaxPending == 2
MaxGestures == 3
\* dispatched instants the audio clock is behind by, and the Transport position
\* (in beats) the clock runs to
MaxAhead == 1
MaxBeats == 2
\* passes of the loop the grid of steps is examined over
MaxLoops == 2
\* the largest value of a setting, and suspended playPreview calls
MaxPatch == 1
MaxPreviews == 1

Steps == 0 .. stepsPerBar - 1
Tracks == 0 .. numTracks - 1
TupletRatios == 0 .. MaxTuplet

majorScaleMidi == <<60, 62, 64, 65, 67, 69, 71, 72, 74, 76>>

\* values of Math.random(), in thousandths
Draws == {0, 500, 999}

---------------------------------------------------------------------------
(* Exact rational arithmetic *)

Abs(x) == IF x < 0 THEN -x ELSE x

RECURSIVE GCD(_, _)
GCD(a, b) == IF b = 0 THEN a ELSE GCD(b, a % b)

Rat(n, d) ==
    LET g == GCD(Abs(n), Abs(d))
        s == IF d < 0 THEN -1 ELSE 1
    IN  [n |-> (s * n) \div g, d |-> (s * d) \div g]

RInt(k) == [n |-> k, d |-> 1]

\* a number of JavaScript that is not finite has the denominator 0: Infinity and
\* -Infinity the numerators 1 and -1, NaN the numerator 0
Sign(x) == IF x > 0 THEN 1 ELSE IF x < 0 THEN -1 ELSE 0
IsFinite(a) == a.d # 0

\* sums over the least common denominator and products after cancelling, which
\* keep the intermediate integers small
LCM(a, b) == (a \div GCD(a, b)) * b
RAdd(a, b) ==
    IF a.d = 0 /\ b.d = 0 THEN [n |-> IF a.n = b.n THEN a.n ELSE 0, d |-> 0]
    ELSE IF a.d = 0 THEN a
    ELSE IF b.d = 0 THEN b
    ELSE Rat(a.n * (LCM(a.d, b.d) \div a.d) + b.n * (LCM(a.d, b.d) \div b.d),
             LCM(a.d, b.d))
RNeg(a) == [n |-> -a.n, d |-> a.d]
RSub(a, b) == RAdd(a, RNeg(b))
RMul(a, b) ==
    IF a.d = 0 \/ b.d = 0 THEN [n |-> Sign(a.n) * Sign(b.n), d |-> 0]
    ELSE Rat((a.n \div GCD(Abs(a.n), b.d)) * (b.n \div GCD(Abs(b.n), a.d)),
             (a.d \div GCD(Abs(b.n), a.d)) * (b.d \div GCD(Abs(a.n), b.d)))
RDiv(a, b) == RMul(a, Rat(b.d, b.n))

\* a/b < c/d for b, d > 0, by integer parts and then the remainders
RECURSIVE FracLt(_, _, _, _)
FracLt(a, b, c, d) ==
    IF a \div b # c \div d THEN a \div b < c \div d
    ELSE IF c % d = 0 THEN FALSE
    ELSE IF a % b = 0 THEN TRUE
    ELSE FracLt(d, c % d, b, a % b)

RLt(a, b) == IF a.d = b.d THEN a.n < b.n ELSE FracLt(a.n, a.d, b.n, b.d)
RLe(a, b) == ~RLt(b, a)
RFloor(a) == a.n \div a.d

---------------------------------------------------------------------------
(* Math.random() and the melody generator *)

\* Math.floor(r * k) for the draw r
FloorScaled(r, k) == (r * k) \div 1000

\* a tape gives the draws of one tuplet cell: for its i-th note, the draw that
\* picks arpeggio or jump, the draw that picks the amount, and the draw of the
\* duration factor
ConstTape(a, b, c) ==
    [branch |-> [i \in 1 .. MaxTuplet |-> a], amount |-> [i \in 1 .. MaxTuplet |-> b],
     factor |-> [i \in 1 .. MaxTuplet |-> c]]

\* the remainder operator of JavaScript: the sign of the dividend
JsRem(a, m) == IF a >= 0 THEN a % m ELSE -((-a) % m)

\* an index that is not wrapped
WrapIndexNone(i) == i

WrapIndex(i) ==
    JsRem(JsRem(i, Len(majorScaleMidi)) + Len(majorScaleMidi), Len(majorScaleMidi))

NextIndex(currentIndex, direction, rBranch, rAmount) ==
    IF rBranch < 700
    THEN WrapIndex(currentIndex + (1 + FloorScaled(rAmount, 3)) * direction)
    ELSE FloorScaled(rAmount, Len(majorScaleMidi))

\* the scale indices of the first i notes of a cell, from the state `st`
RECURSIVE MelodyIndices(_, _, _)
MelodyIndices(i, st, tape) ==
    IF i = 0 THEN <<>>
    ELSE LET prev == MelodyIndices(i - 1, st, tape)
             cur == IF i = 1 THEN st.index ELSE prev[i - 1]
         IN  Append(prev, NextIndex(cur, st.direction, tape.branch[i], tape.amount[i]))

\* getMelodyPattern: the pattern and the arpeggio state it leaves
getMelodyPattern(tupletCount, st, tape) ==
    LET idx == MelodyIndices(tupletCount, st, tape)
    IN  [pattern |-> [i \in 1 .. tupletCount |-> majorScaleMidi[idx[i] + 1]],
         state |-> [index |-> IF tupletCount = 0 THEN st.index ELSE idx[tupletCount],
                    direction |-> st.direction]]

\* no getMelodyPattern call is running
NoCall == [track |-> -1, left |-> 0, index |-> 0, note |-> 0]

\* majorScaleMidi[i] as JavaScript reads it: undefined (-1) outside the array
ScaleAt(i) == IF i \in 0 .. Len(majorScaleMidi) - 1 THEN majorScaleMidi[i + 1] ELSE -1

---------------------------------------------------------------------------
(* createParts: the events handed to Tone.Part, in seconds *)

SecondsPerBeat(b) == RDiv(RInt(60), RInt(b))

StepTime(stepIndex, secondsPerBeat) == RMul(RInt(stepIndex), secondsPerBeat)

\* a loop that ends at the start of the last step instead of at its end
LoopEndOneShort(secondsPerBeat) == RMul(RInt(stepsPerBar - 1), secondsPerBeat)

LoopEnd(secondsPerBeat) == RMul(RInt(stepsPerBar), secondsPerBeat)

\* a tuplet spread over the beat as if it had one note more
NoteIntervalOneMore(secondsPerBeat, n) == RDiv(secondsPerBeat, RInt(n + 1))

NoteInterval(secondsPerBeat, n) == RDiv(secondsPerBeat, RInt(n))

\* a tuplet whose notes are counted from one
NoteTimeFromOne(stepTime, noteInterval, noteIndex) ==
    RAdd(stepTime, RMul(noteInterval, RInt(noteIndex + 1)))

NoteTime(stepTime, noteInterval, noteIndex) ==
    RAdd(stepTime, RMul(noteInterval, RInt(noteIndex)))

\* baseDuration * (0.8 + Math.random() * 0.4)
ActualDuration(r) ==
    RMul(Rat(12, 100), RAdd(Rat(8, 10), RMul(Rat(r, 1000), Rat(4, 10))))

ClickTime(stepTime, secondsPerBeat, i) ==
    RAdd(stepTime, RMul(RInt(i), RDiv(secondsPerBeat, RInt(2))))

IsDownbeat(stepIndex, i) == stepIndex % 4 = 0 /\ i = 0

\* one Tone.Part as createParts describes it: the values its event times, its
\* loopEnd and its callback are computed from
NewPart(kind, step, track, idx, n, note, factor, b) ==
    [kind |-> kind, step |-> step, track |-> track, idx |-> idx, n |-> n,
     note |-> note, factor |-> factor, bpm |-> b]

ClickParts(stepIndex, b) ==
    [i \in 1 .. 2 |->
        NewPart("click", stepIndex, -1, i - 1, 2,
                IF IsDownbeat(stepIndex, i - 1) THEN 89 ELSE 84, 0, b)]

NoteParts(stepIndex, trackIndex, n, b, pattern, tape) ==
    [j \in 1 .. Len(pattern) |->
        NewPart("note", stepIndex, trackIndex, j - 1, n, pattern[j],
                tape.factor[j], b)]

VisualPart(b) == NewPart("visual", -1, -1, -1, 1, -1, 0, b)

\* the number of events of a part: visualPart has one per step
NumEvents(p) == IF p.kind = "visual" THEN stepsPerBar ELSE 1

\* the time, in seconds, of the e-th event of a part
EventTime(p, e) ==
    LET spb == SecondsPerBeat(p.bpm)
    IN  CASE p.kind = "click" -> ClickTime(StepTime(p.step, spb), spb, p.idx)
          [] p.kind = "note" ->
                NoteTime(StepTime(p.step, spb), NoteInterval(spb, p.n), p.idx)
          [] OTHER -> RMul(RInt(e - 1), spb)

\* the step a visualPart event carries
EventStep(p, e) == e - 1

\* part.loopEnd
PartLoopEnd(p) == LoopEnd(SecondsPerBeat(p.bpm))

\* the time at which triggerAttackRelease releases the note of a note part
ReleaseTime(p) == RAdd(EventTime(p, 1), ActualDuration(p.factor))

\* the cells of the sequence in the order of the two forEach loops
CellStep(c, width) == (c - 1) \div width
\* the tracks of a step taken from the last to the first
CellTrackFromLast(c, width) == width - 1 - ((c - 1) % width)

CellTrack(c, width) == (c - 1) % width

\* the parts of the first c cells, and the arpeggio state after them; the clicks
\* of a step come before the notes of its first track
RECURSIVE CellParts(_, _, _, _, _, _)
CellParts(c, grid, b, metro, arp, tape) ==
    IF c = 0 THEN [parts |-> <<>>, arp |-> arp]
    ELSE LET prev == CellParts(c - 1, grid, b, metro, arp, tape)
             width == Len(grid[1])
             s == CellStep(c, width)
             t == CellTrack(c, width)
             n == grid[s + 1][t + 1]
             clicks == IF metro /\ t = 0 THEN ClickParts(s, b) ELSE <<>>
             mel == getMelodyPattern(n, prev.arp[t + 1], tape)
         IN  IF n = 0
             THEN [parts |-> prev.parts \o clicks, arp |-> prev.arp]
             ELSE [parts |-> prev.parts \o clicks
                               \o NoteParts(s, t, n, b, mel.pattern, tape),
                   arp |-> [prev.arp EXCEPT ![t + 1] = mel.state]]

\* createParts once every synth is initialized: the new parts in the order they
\* are pushed, and the arpeggio state left behind
createParts(grid, b, metro, arp, tape) ==
    LET cells == CellParts(stepsPerBar * Len(grid[1]), grid, b, metro, arp, tape)
    IN  [parts |-> Append(cells.parts, VisualPart(b)),
         arp |-> cells.arp]

---------------------------------------------------------------------------
(* Tone.js: Parts on the Transport *)

\* seconds to Transport beats at the tempo the Transport has when the Part is built
ToBeats(seconds, transportBpm) == RMul(seconds, Rat(transportBpm, 60))

\* new Tone.Part(...), loop = true, loopEnd = ..., as the k-th part of generation
\* g: Tone converts the times to Transport ticks at the tempo the Transport has
TonePart(p, g, k, transportBpm) ==
    [gen |-> g, k |-> k, kind |-> p.kind, step |-> p.step, track |-> p.track,
     idx |-> p.idx, n |-> p.n, note |-> p.note, factor |-> p.factor,
     bpm |-> p.bpm, tbpm |-> transportBpm]

\* the Transport position of an event, and the length of the loop, in beats
EventOffset(p, e) == ToBeats(EventTime(p, e), p.tbpm)
LoopBeats(p) == ToBeats(PartLoopEnd(p), p.tbpm)

\* the reference partsRef holds to a part
Ref(p) == <<p.gen, p.k>>

Range(f) == {f[i] : i \in DOMAIN f}

\* a dispose() that leaves the parts on the Transport
DisposeNothing(refs, live) == live

\* part.dispose() on every part of a list
DisposeAll(refs, live) == {p \in live : Ref(p) \notin Range(refs)}

\* the rows a sequence array points to
Grid(seq, h) == [s \in 1 .. Len(seq) |-> h[seq[s]]]

\* the first occurrence, at or after `from` (after it when the events at `from`
\* were dispatched), of a looping event that starts at `offset`
NextOccurrence(offset, loopBeats, from, fired) ==
    IF RLt(from, offset) \/ (offset = from /\ ~fired) THEN offset
    ELSE LET m == RFloor(RDiv(RSub(from, offset), loopBeats))
             c == RAdd(offset, RMul(RInt(m), loopBeats))
         IN  IF c = from /\ ~fired THEN c ELSE RAdd(c, loopBeats)

\* the occurrences the clock has still to dispatch
Occurrences(live, from, fired) ==
    UNION {{[part |-> p, e |-> e,
             pos |-> NextOccurrence(EventOffset(p, e), LoopBeats(p), from, fired)] :
                e \in 1 .. NumEvents(p)} : p \in live}

\* the Transport position of the next dispatch
Earliest(positions) == CHOOSE x \in positions : \A y \in positions : RLe(x, y)
NextPosition(occ) == Earliest({o.pos : o \in occ})

---------------------------------------------------------------------------
(* Inputs *)

RowIds == 1 .. stepsPerBar

\* tempos typed into the BPM input or found in storage; the input's min and max
\* attributes are 20 and 240
BpmInputs == {DefaultBpm, 2 * DefaultBpm, 2 * MaxBpm + MinBpm}

\* the cells the model edits (the second step, empty at first), and the values it
\* selects
EditSteps == {1}
EditRatios == {0, 1, 2}

\* the tempos createParts is examined at: the range of the input, in strides, and
\* the tempos typed or restored
Tempos == {t \in MinBpm .. MaxBpm : (t - MinBpm) % TempoStride = 0} \cup BpmInputs

\* the draws createParts is examined with: every note of a cell gets the same three
PartsTapes == {ConstTape(a, b, c) : a \in Draws, b \in Draws, c \in Draws}

\* the draws of the runs of the whole component
LifeTapes == {ConstTape(0, 0, 0), ConstTape(999, 999, 999)}

EmptyRow == [t \in 1 .. numTracks |-> 0]

\* the sequence a component without a stored one starts with: tuplets on four steps
\* of the first track and on one step of the second, each picked by a draw
tupletOptions == <<2, 3, 4, 5>>
DefaultSequence(r) ==
    [row \in RowIds |->
        [t \in 1 .. numTracks |->
            IF t = 1 /\ (row - 1) \in {0, 2, 4, 6}
            THEN tupletOptions[FloorScaled(r, Len(tupletOptions)) + 1]
            ELSE IF t = 2 /\ row - 1 = 3
            THEN tupletOptions[FloorScaled(r, Len(tupletOptions)) + 1]
            ELSE 0]]

\* the draws of the initial sequence
InitDraws == {0}
ArpInit == [t \in 1 .. numTracks |-> [index |-> 0, direction |-> 1]]
NoVoices == [t \in Tracks |-> [attack |-> 0, release |-> 0]]

\* the values a setting of a track takes, and the settings of a track: the
\* amplitude envelope (with oscillator, volume, detune: what synth.set is given),
\* the filter envelope, and the filter and effects of the track's chain
Patches == 0 .. MaxPatch
SettingKeys == {"env", "fenv", "fx"}
DefaultSettings == [k \in SettingKeys |-> 0]

---------------------------------------------------------------------------
(* The component *)

\* previewTimeoutRef holds no timeout that can fire
NoTimer == -1

\* the delay of the timeout of the preview effect, in tenths of a second
PreviewDelay == 3

\* the volume and mute of a track without stored ones, and the oscMix of its
\* settings, in hundredths
DefaultMix == [mute |-> FALSE, volume |-> 0, oscMix |-> 50]

\* the values of the volume slider of a track the model uses (the slider goes
\* from -40 to 10), and the volumes and mutes the storage can hold
TrackVolumes == {-12, 0}
StoredMixes ==
    {[mute |-> m, volume |-> v, oscMix |-> DefaultMix.oscMix] :
        m \in BOOLEAN, v \in TrackVolumes}

\* the oscMix a track's settings can have: 0 to 1 in steps of a hundredth
OscMixes == {[DefaultMix EXCEPT !.oscMix = m] : m \in 0 .. 100}

\* a voice that is not built yet
NoGains == [built |-> FALSE, osc1Gain |-> RInt(0), osc2Gain |-> RInt(0)]

\* settings?.oscMix || 0.5
OscMixOrDefault(m) == IF m = 0 THEN Rat(1, 2) ELSE Rat(m, 100)

\* the two gains DualOscVoice's constructor mixes the oscillators with
MixerGains(m) ==
    [built |-> TRUE, osc1Gain |-> RSub(RInt(1), OscMixOrDefault(m)),
     osc2Gain |-> OscMixOrDefault(m)]

MinusInfinity == [n |-> -1, d |-> 0]

\* synth.volume of a new PolySynth: a value in dB, and whether a signal is
\* connected to it
NewVolume == [value |-> RInt(0), driven |-> FALSE]

\* track.synth.volume.value = trackMutes[i] ? -Infinity : trackVolumes[i]
ApplyVolumeAndMute(sv, mute, volume) ==
    [sv EXCEPT !.value = IF mute THEN MinusInfinity ELSE RInt(volume)]

\* what a track has: the envelope and filter envelope settings of each voice of
\* its synth, the settings of its filter and effect nodes, and its stored settings
TrackState(vs, fx, stored) ==
    [voices |-> [i \in DOMAIN vs |-> [env |-> vs[i].env, fenv |-> vs[i].fenv]],
     chain |-> fx, stored |-> stored]

NotOpen == TrackState(<<>>, DefaultSettings.fx, DefaultSettings)

\* the component after its first render, with the tempo, the metronome switch and
\* the sequence it found in storage or took as defaults
InitWith(bpms, metros, heaps, ready, mixes) ==
    /\ mounted = TRUE
    /\ bpm \in bpms
    /\ metronomeEnabled \in metros
    /\ isPlaying = FALSE
    /\ currentStep = 0
    /\ heap \in heaps
    /\ sequence = [s \in 1 .. stepsPerBar |-> s]
    /\ sequenceRef = sequence
    /\ arpeggioState = ArpInit
    /\ parts = <<>>
    /\ liveParts = {}
    /\ gen = 0
    /\ pending = <<>>
    /\ tState = "stopped"
    /\ tBpm = 2 * DefaultBpm
    /\ tTicks = RInt(0)
    /\ tFired = FALSE
    /\ scheduled = <<>>
    /\ voices = NoVoices
    /\ gestures = 0
    /\ dlgOpen = FALSE
    /\ params = DefaultSettings
    /\ trackSettings = DefaultSettings
    /\ previewTimer = NoTimer
    /\ previews = 0
    /\ synthVoices = <<>>
    /\ chain = DefaultSettings.fx
    /\ clock = 0
    /\ pool = <<>>
    /\ notesAsked = 0
    /\ melody = NoCall
    /\ synthsReady = ready
    /\ reported = 0
    /\ \E m \in mixes :
          /\ trackMute = m.mute
          /\ trackVolume = m.volume
          /\ oscVoice = [oscMix |-> m.oscMix, gains |-> NoGains]
          /\ synthVolume = IF ready THEN ApplyVolumeAndMute(NewVolume, m.mute, m.volume)
                           ELSE NewVolume
    /\ lfoAmp = FALSE
    /\ atOpen = NotOpen

\* the component once the synths of the tracks are built
Init == InitWith(BpmInputs, {TRUE}, {DefaultSequence(r) : r \in InitDraws}, TRUE, {DefaultMix})

\* new parts pushed after the ones partsRef holds, nothing disposed
InstallPartsAfterOld(made, g, transportBpm) ==
    /\ gen' = g
    /\ parts' = parts \o [k \in 1 .. Len(made.parts) |-> <<g, k>>]
    /\ liveParts' = liveParts \cup {TonePart(made.parts[k], g, k, transportBpm) :
                                       k \in 1 .. Len(made.parts)}
    /\ arpeggioState' = made.arp

\* the new parts replace the ones partsRef held, which were disposed; each part is
\* built at the tempo the Transport has
InstallParts(made, g, transportBpm) ==
    /\ gen' = g
    /\ parts' = [k \in 1 .. Len(made.parts) |-> <<g, k>>]
    /\ liveParts' = DisposeAll(parts, liveParts)
                       \cup {TonePart(made.parts[k], g, k, transportBpm) :
                                k \in 1 .. Len(made.parts)}
    /\ arpeggioState' = made.arp

\* createParts() and part.start(0) on every new part, with the bpm and
\* metronomeEnabled of the calling closure
CreateAndStartParts(grid, b, metro, transportBpm, tape) ==
    /\ gen < MaxGen
    /\ InstallParts(createParts(grid, b, metro, arpeggioState, tape), gen + 1,
                    transportBpm)

\* a click, a typed value, a selection or leaving the page
Gesture == gestures < MaxGestures /\ gestures' = gestures + 1

\* a start() that takes the synths for granted
allSynthsAssumed == TRUE

\* tracks.every((track) => track.synth !== null)
allSynthsReady == synthsReady

\* the effect that builds the synth and the effects of every track
InitTracks ==
    /\ ~synthsReady
    /\ synthsReady' = TRUE
    /\ synthVolume' = ApplyVolumeAndMute(NewVolume, trackMute, trackVolume)
    /\ UNCHANGED <<trackVars, dialogVars, poolVars, melody, oscVoice, reported, trackMute,
                   trackVolume, lfoAmp, atOpen>>

\* the click on Start while a synth is missing: start() logs an error and returns
StartRefused ==
    /\ Gesture
    /\ mounted /\ ~isPlaying
    /\ ~allSynthsReady
    /\ reported' = reported + 1
    /\ UNCHANGED <<reactVars, seqVars, partVars, pending, toneVars, audioVars,
                   dialogVars, poolVars, melody, oscVoice, synthsReady, mixVars, atOpen>>

\* the click on Start: start() runs up to `await Tone.start()`
StartBegin ==
    /\ UNCHANGED <<dialogVars, sideVars>>
    /\ Gesture
    /\ mounted /\ ~isPlaying
    /\ allSynthsReady
    /\ Len(pending) < MaxPending
    /\ pending' = Append(pending, [bpm |-> bpm, metro |-> metronomeEnabled])
    /\ UNCHANGED <<reactVars, seqVars, partVars, toneVars, audioVars>>

\* start() after the await. setIsPlaying(true) re-renders a mounted component
\* whose isPlaying was false, and the bpm effect then sets the current bpm; on an
\* unmounted component it does nothing
StartResumeWith(tapes) ==
    /\ UNCHANGED <<dialogVars, sideVars>>
    /\ UNCHANGED gestures
    /\ pending # <<>>
    /\ pending' = Tail(pending)
    /\ UNCHANGED seqVars
    /\ \E tape \in tapes :
          CreateAndStartParts(Grid(sequenceRef, heap), Head(pending).bpm,
                              Head(pending).metro, Head(pending).bpm, tape)
    /\ tState' = "started"
    /\ UNCHANGED <<tTicks, tFired>>
    /\ isPlaying' = (mounted \/ isPlaying)
    /\ tBpm' = IF mounted /\ ~isPlaying THEN bpm ELSE Head(pending).bpm
    /\ UNCHANGED <<mounted, bpm, metronomeEnabled, currentStep, audioVars>>

StartResume == StartResumeWith(LifeTapes)

\* a Transport that pauses: the position is kept
PauseTransport ==
    /\ tState' = "stopped"
    /\ UNCHANGED <<tTicks, tFired>>

\* Tone.Transport.stop(); Tone.Transport.position = 0
StopTransport ==
    /\ tState' = "stopped"
    /\ tTicks' = RInt(0)
    /\ tFired' = FALSE

\* the click on Stop
Stop ==
    /\ UNCHANGED <<dialogVars, sideVars>>
    /\ Gesture
    /\ mounted /\ isPlaying
    /\ parts' = <<>>
    /\ liveParts' = DisposeAll(parts, liveParts)
    /\ StopTransport
    /\ isPlaying' = FALSE
    /\ currentStep' = 0
    /\ UNCHANGED <<mounted, bpm, metronomeEnabled, seqVars, arpeggioState, gen,
                   pending, tBpm, audioVars>>

\* a tempo that moves a tenth of the way to the typed value
SetBpmByTenth(newBpm) ==
    /\ UNCHANGED <<dialogVars, sideVars>>
    /\ Gesture
    /\ mounted /\ newBpm # bpm
    /\ bpm' = newBpm
    /\ tBpm' = IF isPlaying THEN tBpm + (newBpm - tBpm) \div 10 ELSE tBpm
    /\ UNCHANGED <<mounted, metronomeEnabled, isPlaying, currentStep, seqVars,
                   partVars, pending, tState, tTicks, tFired, audioVars>>

\* the BPM input's onChange and the bpm effect
SetBpm(newBpm) ==
    /\ UNCHANGED <<dialogVars, sideVars>>
    /\ Gesture
    /\ mounted /\ newBpm # bpm
    /\ bpm' = newBpm
    /\ tBpm' = IF isPlaying THEN newBpm ELSE tBpm
    /\ UNCHANGED <<mounted, metronomeEnabled, isPlaying, currentStep, seqVars,
                   partVars, pending, tState, tTicks, tFired, audioVars>>

\* the Metronome button
ToggleMetronome ==
    /\ UNCHANGED <<dialogVars, sideVars>>
    /\ Gesture
    /\ mounted
    /\ metronomeEnabled' = ~metronomeEnabled
    /\ UNCHANGED <<mounted, bpm, isPlaying, currentStep, seqVars, partVars,
                   pending, toneVars, audioVars>>

\* a tuplet select's onChange: the updater copies the outer array and writes the
\* cell into the row it shares with the previous array; then the sequence effect
EditCell(step, trackIndex, value) ==
    /\ UNCHANGED <<dialogVars, sideVars>>
    /\ Gesture
    /\ mounted
    /\ heap[sequence[step + 1]][trackIndex + 1] # value
    /\ heap' = [heap EXCEPT ![sequence[step + 1]][trackIndex + 1] = value]
    /\ sequence' = sequence
    /\ sequenceRef' = sequence'
    /\ IF isPlaying
       THEN \E tape \in LifeTapes :
               CreateAndStartParts(
                   Grid(sequence,
                        [heap EXCEPT ![sequence[step + 1]][trackIndex + 1] = value]),
                   bpm, metronomeEnabled, tBpm, tape)
       ELSE UNCHANGED partVars
    /\ UNCHANGED <<reactVars, pending, toneVars, audioVars>>

\* the cleanup of the component: parts stopped and disposed, the Transport
\* stopped if it runs
Unmount ==
    /\ UNCHANGED <<dialogVars, sideVars>>
    /\ Gesture
    /\ mounted
    /\ mounted' = FALSE
    /\ parts' = <<>>
    /\ liveParts' = DisposeAll(parts, liveParts)
    /\ IF tState = "started" THEN StopTransport ELSE UNCHANGED <<tState, tTicks, tFired>>
    /\ UNCHANGED <<bpm, metronomeEnabled, isPlaying, currentStep, seqVars,
                   arpeggioState, gen, pending, tBpm, audioVars>>

---------------------------------------------------------------------------
(* The Transport clock, the audio clock and the voices *)

\* what the callbacks of the occurrences at one position hand on: the steps given
\* to Tone.Draw.schedule and, per track, the notes given to triggerAttackRelease,
\* all for the audio time of that position; late tells that the audio clock had
\* passed that time when the callbacks ran
Instant(due) ==
    [steps |-> {EventStep(o.part, o.e) : o \in {d \in due : d.part.kind = "visual"}},
     notes |-> [t \in Tracks |->
                   Cardinality({o \in due : o.part.kind = "note" /\ o.part.track = t})],
     late |-> FALSE]

\* the clock dispatches the occurrences at position p
DispatchAt(occ, p) ==
    /\ RLe(p, RInt(MaxBeats))
    /\ tTicks' = p
    /\ tFired' = TRUE
    /\ scheduled' = Append(scheduled, Instant({o \in occ : o.pos = p}))

DispatchNext(occ) == DispatchAt(occ, NextPosition(occ))

\* the clock of the Transport invokes, ahead of the audio clock, the callbacks of
\* every live part that has an occurrence at the next position
Dispatch ==
    /\ UNCHANGED <<dialogVars, sideVars>>
    /\ UNCHANGED gestures
    /\ tState = "started"
    /\ liveParts # {}
    /\ Len(scheduled) < MaxAhead
    /\ DispatchNext(Occurrences(liveParts, tTicks, tFired))
    /\ UNCHANGED <<reactVars, seqVars, partVars, pending, tState, tBpm, voices>>

\* the clock wakes up after the host held its timer back: it runs the callbacks
\* of the position it missed, with the audio time of that position, which has
\* passed; the callbacks hand their notes on as they do in time
DispatchLateAt(occ, p) ==
    /\ RLe(p, RInt(MaxBeats))
    /\ tTicks' = p
    /\ tFired' = TRUE
    /\ scheduled' = Append(scheduled,
                           [Instant({o \in occ : o.pos = p}) EXCEPT !.late = TRUE])

DispatchLate ==
    /\ UNCHANGED <<dialogVars, sideVars>>
    /\ UNCHANGED gestures
    /\ tState = "started"
    /\ liveParts # {}
    /\ Len(scheduled) < MaxAhead
    /\ LET occ == Occurrences(liveParts, tTicks, tFired)
       IN  DispatchLateAt(occ, NextPosition(occ))
    /\ UNCHANGED <<reactVars, seqVars, partVars, pending, tState, tBpm, voices>>

Min(a, b) == IF a < b THEN a ELSE b

\* PolySynth: a note that finds maxPolyphony voices active gets no voice
Admitted(v, n) == Min(n, maxPolyphony - (v.attack + v.release))

\* the audio clock reaches the oldest dispatched instant: its Draw callbacks run
\* (a setState of an unmounted component does nothing; Tone.Draw may skip the
\* callbacks of a late instant) and its notes attack, at once when it is late
AudioReach ==
    /\ UNCHANGED <<dialogVars, sideVars>>
    /\ UNCHANGED gestures
    /\ scheduled # <<>>
    /\ scheduled' = Tail(scheduled)
    /\ IF mounted /\ Head(scheduled).steps # {}
       THEN \/ \E st \in Head(scheduled).steps : currentStep' = st
            \/ Head(scheduled).late /\ currentStep' = currentStep
       ELSE currentStep' = currentStep
    /\ voices' = [t \in Tracks |->
                     [voices[t] EXCEPT
                         !.attack = @ + Admitted(voices[t], Head(scheduled).notes[t])]]
    /\ UNCHANGED <<mounted, bpm, metronomeEnabled, isPlaying, seqVars, partVars,
                   pending, toneVars>>

\* the release that triggerAttackRelease scheduled at time + duration
VoiceRelease(t) ==
    /\ UNCHANGED <<dialogVars, sideVars>>
    /\ UNCHANGED gestures
    /\ voices[t].attack > 0
    /\ voices' = [voices EXCEPT ![t] = [attack |-> @.attack - 1,
                                        release |-> @.release + 1]]
    /\ UNCHANGED <<reactVars, seqVars, partVars, pending, toneVars, scheduled>>

\* the release tail has run out: the voice is silent
VoiceSilent(t) ==
    /\ UNCHANGED <<dialogVars, sideVars>>
    /\ UNCHANGED gestures
    /\ voices[t].release > 0
    /\ voices' = [voices EXCEPT ![t].release = @ - 1]
    /\ UNCHANGED <<reactVars, seqVars, partVars, pending, toneVars, scheduled>>

Next ==
    \/ StartBegin
    \/ StartResume
    \/ Stop
    \/ \E b \in BpmInputs : SetBpm(b)
    \/ ToggleMetronome
    \/ \E st \in EditSteps, t \in Tracks, v \in EditRatios : EditCell(st, t, v)
    \/ Unmount
    \/ Dispatch
    \/ AudioReach
    \/ \E t \in Tracks : VoiceRelease(t)
    \/ \E t \in Tracks : VoiceSilent(t)

Spec == Init /\ [][Next]_vars

---------------------------------------------------------------------------
(* Playback on a host that holds the timer of the clock back *)

NextStall ==
    \/ StartBegin
    \/ StartResume
    \/ Stop
    \/ \E st \in EditSteps, t \in Tracks, v \in EditRatios : EditCell(st, t, v)
    \/ Dispatch
    \/ DispatchLate
    \/ AudioReach
    \/ \E t \in Tracks : VoiceRelease(t)
    \/ \E t \in Tracks : VoiceSilent(t)

InitStall ==
    InitWith({DefaultBpm}, {TRUE}, {DefaultSequence(r) : r \in InitDraws}, TRUE, {DefaultMix})

SpecStall == InitStall /\ [][NextStall]_vars

---------------------------------------------------------------------------
(* createParts on its own: one start() of a sequence with one cell set, at any
   tempo, with any draws *)

InitParts ==
    InitWith(Tempos, BOOLEAN,
             {[r \in RowIds |-> IF r = st + 1 THEN [EmptyRow EXCEPT ![t + 1] = n]
                                ELSE EmptyRow] :
                 st \in Steps, t \in Tracks, n \in TupletRatios},
             TRUE, {DefaultMix})

PartsStart == pending = <<>> /\ StartBegin

PartsResume == gen = 0 /\ StartResumeWith(PartsTapes)

NextParts == PartsStart \/ PartsResume

SpecParts == InitParts /\ [][NextParts]_vars

---------------------------------------------------------------------------
(* The component from its first render, before the synths of the tracks exist *)

InitMount == InitWith(BpmInputs, {TRUE}, {DefaultSequence(r) : r \in InitDraws}, FALSE, {DefaultMix})

NextMount ==
    \/ InitTracks
    \/ StartRefused
    \/ StartBegin
    \/ StartResume
    \/ Stop
    \/ \E b \in BpmInputs : SetBpm(b)
    \/ ToggleMetronome

SpecMount == InitMount /\ [][NextMount]_vars

---------------------------------------------------------------------------
(* The component with any tempo the BPM input or the storage can give it *)

\* Number("") of a BPM input that was cleared, or Number("0") from storage
ClearedBpm == 0

ConfigBpms == BpmInputs \cup {ClearedBpm}

InitConfig == InitWith(ConfigBpms, {TRUE}, {DefaultSequence(r) : r \in InitDraws}, TRUE, {DefaultMix})

NextConfig ==
    \/ StartBegin
    \/ StartResume
    \/ Stop
    \/ \E b \in ConfigBpms : SetBpm(b)
    \/ ToggleMetronome

SpecConfig == InitConfig /\ [][NextConfig]_vars

---------------------------------------------------------------------------
(* The settings dialog of a track (SynthControls) and the track's PolySynth *)

\* a voice as DualOscVoice's constructor builds it, from the settings the
\* PolySynth was created with
NewVoice == [phase |-> "attack", env |-> DefaultSettings.env,
             fenv |-> DefaultSettings.fenv]

IdleVoices(vs) == {i \in DOMAIN vs : vs[i].phase = "idle"}

\* triggerAttackRelease: a free voice is taken, or one is built while there are
\* fewer than maxPolyphony; otherwise the note is dropped
Trigger(vs) ==
    IF IdleVoices(vs) # {}
    THEN [vs EXCEPT ![CHOOSE i \in IdleVoices(vs) : \A j \in IdleVoices(vs) : i <= j]
                        .phase = "attack"]
    ELSE IF Len(vs) < maxPolyphony THEN Append(vs, NewVoice) ELSE vs

\* synth.releaseAll()
ReleaseAll(vs) ==
    [i \in DOMAIN vs |->
        IF vs[i].phase = "attack" THEN [vs[i] EXCEPT !.phase = "release"] ELSE vs[i]]

\* settings that reach only the voices that are free
ApplySettingsToIdle(vs, p) ==
    [i \in DOMAIN vs |->
        IF vs[i].phase = "idle" THEN [vs[i] EXCEPT !.env = p.env, !.fenv = p.fenv]
        ELSE vs[i]]

\* synth.set({...}) and the loop over _voices that sets filterEnvelope: every voice
\* the synth holds gets the values
ApplySettings(vs, p) == [i \in DOMAIN vs |-> [vs[i] EXCEPT !.env = p.env, !.fenv = p.fenv]]

\* a preview effect that leaves a pending timeout to run
PreviewEffectKeeping(timer) == IF timer = NoTimer THEN 0 ELSE timer

\* the preview effect with the dialog open: the timeout the ref holds is cleared
\* and a new one is armed
PreviewEffect(timer) == 0

\* the dialog is opened and the preview effect arms its timeout: params is what it
\* was when the dialog closed, SynthControls staying mounted, or initialSettings
\* again when another track was selected in between
OpenDialog ==
    /\ ~dlgOpen
    /\ dlgOpen' = TRUE
    /\ params' \in {params, trackSettings}
    /\ previewTimer' = PreviewEffect(previewTimer)
    /\ atOpen' = TrackState(synthVoices, chain, trackSettings)
    /\ UNCHANGED <<trackSettings, previews, synthVoices, chain, trackVars, poolVars,
                   melody, oscVoice, synthsReady, reported, mixVars>>

\* handleChange, and the preview effect that clears the timeout and arms it again
HandleChange(key, value) ==
    /\ dlgOpen
    /\ params[key] # value
    /\ params' = [params EXCEPT ![key] = value]
    /\ previewTimer' = PreviewEffect(previewTimer)
    /\ UNCHANGED <<dlgOpen, trackSettings, previews, synthVoices, chain, sequencerVars>>

\* the timeout of the preview effect waits: a tenth of a second passes
PreviewWait ==
    /\ previewTimer \in 0 .. PreviewDelay - 1
    /\ previewTimer' = previewTimer + 1
    /\ UNCHANGED <<dlgOpen, params, trackSettings, previews, synthVoices, chain,
                   sequencerVars>>

\* the Preview button of the dialog: playPreview is called at the click, and the
\* timeout of the effect is left as it is
PreviewClick ==
    /\ dlgOpen
    /\ previews < MaxPreviews
    /\ synthVoices' = ApplySettings(synthVoices, params)
    /\ chain' = params.fx
    /\ previews' = previews + 1
    /\ UNCHANGED <<dlgOpen, params, trackSettings, previewTimer, sequencerVars>>

\* the timeout fires 300 ms after it was armed: playPreview applies params and
\* waits for Tone.start()
PreviewFire ==
    /\ previewTimer = PreviewDelay
    /\ previews < MaxPreviews
    /\ previewTimer' = NoTimer
    /\ synthVoices' = ApplySettings(synthVoices, params)
    /\ chain' = params.fx
    /\ previews' = previews + 1
    /\ UNCHANGED <<dlgOpen, params, trackSettings, sequencerVars>>

\* playPreview after the await: releaseAll and the preview note
PreviewResume ==
    /\ previews > 0
    /\ previews' = previews - 1
    /\ synthVoices' = Trigger(ReleaseAll(synthVoices))
    /\ UNCHANGED <<dlgOpen, params, trackSettings, previewTimer, chain, sequencerVars>>

\* the LFO part of handleSave: the Scale nodes of the last Save are disposed, and
\* with an LFO on the amplitude a new one is connected to synth.volume, which
\* resets the value of the volume and leaves it to the signal
ConnectAmpLfo(sv, amp) ==
    IF amp THEN [value |-> RInt(0), driven |-> TRUE] ELSE [sv EXCEPT !.driven = FALSE]

\* handleSave: the settings are applied, handed to the parent, and the dialog
\* closes, which clears the timeout
HandleSave ==
    /\ dlgOpen
    /\ synthVoices' = ApplySettings(synthVoices, params)
    /\ chain' = params.fx
    /\ synthVolume' = ConnectAmpLfo(synthVolume, lfoAmp)
    /\ atOpen' = NotOpen
    /\ trackSettings' = params
    /\ dlgOpen' = FALSE
    /\ previewTimer' = NoTimer
    /\ UNCHANGED <<params, previews, trackVars, poolVars, melody, oscVoice, synthsReady,
                   reported, trackMute, trackVolume, lfoAmp>>

\* onClose without Save
CloseDialog ==
    /\ dlgOpen
    /\ dlgOpen' = FALSE
    /\ previewTimer' = NoTimer
    /\ atOpen' = NotOpen
    /\ UNCHANGED <<params, trackSettings, previews, synthVoices, chain, trackVars,
                   poolVars, melody, oscVoice, synthsReady, reported, mixVars>>

\* a note part of the sequencer triggers a note on the track
NoteOn ==
    /\ synthVoices' = Trigger(synthVoices)
    /\ synthVoices' # synthVoices
    /\ UNCHANGED <<dlgOpen, params, trackSettings, previewTimer, previews, chain,
                   sequencerVars>>

\* the release of a voice begins
EnvelopeRelease(i) ==
    /\ synthVoices[i].phase = "attack"
    /\ synthVoices' = [synthVoices EXCEPT ![i].phase = "release"]
    /\ UNCHANGED <<dlgOpen, params, trackSettings, previewTimer, previews, chain,
                   sequencerVars>>

\* the release has run out: the voice is free again
EnvelopeSilent(i) ==
    /\ synthVoices[i].phase = "release"
    /\ synthVoices' = [synthVoices EXCEPT ![i].phase = "idle"]
    /\ UNCHANGED <<dlgOpen, params, trackSettings, previewTimer, previews, chain,
                   sequencerVars>>

\* handleChange of the amount of the LFO on the amplitude, and the preview effect
HandleLfoAmp ==
    /\ dlgOpen
    /\ lfoAmp' = ~lfoAmp
    /\ previewTimer' = PreviewEffect(previewTimer)
    /\ UNCHANGED <<dlgOpen, params, trackSettings, previews, synthVoices, chain,
                   trackVars, poolVars, melody, oscVoice, synthsReady, reported, trackMute,
                   trackVolume, synthVolume, atOpen>>

\* the Mute button of the track, and the volume and mute effect
MuteToggle ==
    /\ synthsReady
    /\ trackMute' = ~trackMute
    /\ synthVolume' = ApplyVolumeAndMute(synthVolume, ~trackMute, trackVolume)
    /\ UNCHANGED <<trackVars, dialogVars, poolVars, melody, oscVoice, synthsReady, reported,
                   trackVolume, lfoAmp, atOpen>>

\* the volume slider of the track, and the volume and mute effect
VolumeChange(volume) ==
    /\ synthsReady
    /\ volume # trackVolume
    /\ trackVolume' = volume
    /\ synthVolume' = ApplyVolumeAndMute(synthVolume, trackMute, volume)
    /\ UNCHANGED <<trackVars, dialogVars, poolVars, melody, oscVoice, synthsReady, reported,
                   trackMute, lfoAmp, atOpen>>

InitDialog == Init /\ bpm = DefaultBpm

\* the PolySynth of a track builds a voice from the settings of the track
BuildVoice ==
    /\ ~oscVoice.gains.built
    /\ oscVoice' = [oscVoice EXCEPT !.gains = MixerGains(oscVoice.oscMix)]
    /\ UNCHANGED <<trackVars, dialogVars, poolVars, melody, hostVars>>

InitOsc ==
    InitWith({DefaultBpm}, {TRUE}, {DefaultSequence(r) : r \in InitDraws}, TRUE,
             OscMixes)

NextOsc == BuildVoice

SpecOsc == InitOsc /\ [][NextOsc]_vars

InitMix ==
    InitWith({DefaultBpm}, {TRUE}, {DefaultSequence(r) : r \in InitDraws}, TRUE,
             StoredMixes)

\* the steps that reach synth.volume or the mute flag, and the dialog around them
NextMix ==
    \/ MuteToggle
    \/ \E volume \in TrackVolumes : VolumeChange(volume)
    \/ OpenDialog
    \/ HandleLfoAmp
    \/ PreviewWait
    \/ PreviewClick
    \/ PreviewFire
    \/ PreviewResume
    \/ HandleSave
    \/ CloseDialog

SpecMix == InitMix /\ [][NextMix]_vars

NextDialog ==
    \/ OpenDialog
    \/ \E key \in SettingKeys, value \in Patches : HandleChange(key, value)
    \/ PreviewWait
    \/ PreviewClick
    \/ PreviewFire
    \/ PreviewResume
    \/ HandleSave
    \/ CloseDialog
    \/ NoteOn
    \/ \E i \in DOMAIN synthVoices : EnvelopeRelease(i)
    \/ \E i \in DOMAIN synthVoices : EnvelopeSilent(i)

SpecDialog == InitDialog /\ [][NextDialog]_vars

---------------------------------------------------------------------------
(* The voices of one track: Tone.PolySynth over DualOscVoice, in audio time.
   The clock counts tenths of a second *)

\* the 0.1 s added to the release in _triggerEnvelopeRelease
GuardTicks == 1
\* envelope levels in thousandths: the level onsilence needs the voice to be under,
\* and the level of a held note
SilenceLevel == 1
SustainLevel == 500
\* envelope.release, and the durations of the notes that are triggered
ReleaseTicks == 2
MaxNoteTicks == 2
\* the time the audio clock runs to and the number of notes triggered
MaxClock == 6
MaxNotes == 3

NoteTicks == 1 .. MaxNoteTicks

\* a voice as the PolySynth builds it and hands it the note: its envelope attacks
\* now and the release is asked for the time `off`
HeldVoice(now, off) ==
    [use |-> "held", env |-> "attack", on |-> now, off |-> off, relAt |-> -1,
     timers |-> {}, missed |-> FALSE]

\* the voices the PolySynth can hand out
FreeVoices(vs) == {i \in DOMAIN vs : vs[i].use = "free"}

\* PolySynth.triggerAttackRelease(note, duration, now): the attack goes to a free
\* voice, or to a new one while the synth holds fewer than maxPolyphony; otherwise
\* the note is dropped
TriggerAttackRelease(vs, now, duration) ==
    IF FreeVoices(vs) # {}
    THEN [vs EXCEPT ![CHOOSE i \in FreeVoices(vs) : \A j \in FreeVoices(vs) : i <= j] =
                       [HeldVoice(now, now + duration) EXCEPT !.timers = @ \cup
                           vs[CHOOSE i \in FreeVoices(vs) : \A j \in FreeVoices(vs) : i <= j]
                              .timers]]
    ELSE IF Len(vs) < maxPolyphony THEN Append(vs, HeldVoice(now, now + duration))
    ELSE vs

\* this.envelope.getValueAtTime(time): a release started at relAt has run out
\* after envelope.release
getLevelAtTime(v, time) ==
    CASE v.env = "attack" -> SustainLevel
      [] v.env = "release" -> IF time >= v.relAt + ReleaseTicks THEN 0 ELSE SustainLevel
      [] OTHER -> 0

\* a silence check armed at the release itself
SilenceCheckAtRelease(now) == now

\* a silence check armed without the guard
SilenceCheckUnguarded(now) == now + ReleaseTicks

\* context.setTimeout(..., releaseDuration): the time the check is armed for
SilenceCheck(now) == now + ReleaseTicks + GuardTicks

\* _triggerEnvelopeRelease(time), called at `now`: the envelope releases at `time`
\* and one more check is armed
triggerEnvelopeRelease(v, time, now) ==
    [v EXCEPT !.env = "release", !.relAt = time,
              !.timers = @ \cup {[due |-> SilenceCheck(now), rel |-> time]}]

\* a release the PolySynth holds back, or a silence check, has come due
DueNow(vs, now) ==
    \E i \in DOMAIN vs :
        \/ vs[i].use = "held" /\ vs[i].off <= now /\ SilenceCheck(now) <= MaxClock
        \/ \E tm \in vs[i].timers : tm.due <= now

\* the audio clock advances once the timeouts of context.setTimeout that are due
\* have run
Tick ==
    /\ UNCHANGED <<trackVars, dialogVars, melody, oscVoice, hostVars>>
    /\ clock < MaxClock
    /\ ~DueNow(pool, clock)
    /\ clock' = clock + 1
    /\ UNCHANGED <<pool, notesAsked>>

\* a note part or a preview triggers a note
PoolTrigger(duration) ==
    /\ UNCHANGED <<trackVars, dialogVars, melody, oscVoice, hostVars>>
    /\ notesAsked < MaxNotes
    /\ notesAsked' = notesAsked + 1
    /\ pool' = TriggerAttackRelease(pool, clock, duration)
    /\ UNCHANGED clock

\* the release of triggerAttackRelease, which the PolySynth holds back until its
\* time has come: voice.triggerRelease(off)
PoolRelease(i) ==
    /\ UNCHANGED <<trackVars, dialogVars, melody, oscVoice, hostVars>>
    /\ pool[i].use = "held"
    /\ clock >= pool[i].off
    /\ SilenceCheck(clock) <= MaxClock
    /\ pool' = [pool EXCEPT ![i] =
                   [triggerEnvelopeRelease(pool[i], pool[i].off, clock)
                       EXCEPT !.use = "released"]]
    /\ UNCHANGED <<clock, notesAsked>>

\* synth.releaseAll(): voice.triggerRelease(now) on every voice that is not free,
\* released before or not
releaseAll(vs, now) ==
    [i \in DOMAIN vs |->
        IF vs[i].use = "free" THEN vs[i] ELSE triggerEnvelopeRelease(vs[i], now, now)]

\* playPreview after its await: releaseAll and then the preview note
PoolPreview(duration) ==
    /\ UNCHANGED <<trackVars, dialogVars, melody, oscVoice, hostVars>>
    /\ notesAsked < MaxNotes
    /\ notesAsked' = notesAsked + 1
    /\ SilenceCheck(clock) <= MaxClock
    /\ pool' = TriggerAttackRelease(releaseAll(pool, clock), clock, duration)
    /\ UNCHANGED clock

\* the timeout of a check comes due: onsilence is called if the level is under
\* 0.001, and the PolySynth takes the voice back
SilenceTimeout(i, tm) ==
    /\ UNCHANGED <<trackVars, dialogVars, melody, oscVoice, hostVars>>
    /\ tm \in pool[i].timers
    /\ clock >= tm.due
    /\ pool' = [pool EXCEPT ![i] =
                   IF getLevelAtTime(pool[i], clock) < SilenceLevel
                   THEN [@ EXCEPT !.timers = @ \ {tm}, !.use = "free", !.env = "idle",
                                  !.on = -1, !.off = -1]
                   ELSE [@ EXCEPT !.timers = @ \ {tm},
                                  !.missed = @ \/ pool[i].env = "release"]]
    /\ UNCHANGED <<clock, notesAsked>>

SilenceTimeouts == \E i \in DOMAIN pool : \E tm \in pool[i].timers : SilenceTimeout(i, tm)

PoolReleases == \E i \in DOMAIN pool : PoolRelease(i)

NextVoices ==
    \/ Tick
    \/ \E d \in NoteTicks : PoolTrigger(d)
    \/ PoolReleases
    \/ \E d \in NoteTicks : PoolPreview(d)
    \/ SilenceTimeouts

SpecVoices == InitDialog /\ [][NextVoices]_vars

\* the audio clock advances and a timeout that is due is run
SpecVoicesFair ==
    SpecVoices /\ WF_vars(Tick) /\ WF_vars(PoolReleases) /\ WF_vars(SilenceTimeouts)

---------------------------------------------------------------------------
(* getMelodyPattern, note by note, over any number of calls *)

\* the call starts: the locals are read from the arpeggio state of the track
MelodyBegin(trackIndex, tupletCount) ==
    /\ melody = NoCall
    /\ synthsReady = TRUE
    /\ reported = 0
    /\ melody' = [track |-> trackIndex, left |-> tupletCount,
                  index |-> arpeggioState[trackIndex + 1].index, note |-> 0]
    /\ UNCHANGED <<trackVars, dialogVars, poolVars, hostVars, oscVoice>>

\* one pass of the loop: two draws, the new index, and the pitch pushed
MelodyNote(rBranch, rAmount) ==
    /\ melody.track >= 0 /\ melody.left > 0
    /\ melody' = [melody EXCEPT
                     !.left = @ - 1,
                     !.index = NextIndex(@, arpeggioState[melody.track + 1].direction,
                                         rBranch, rAmount),
                     !.note = ScaleAt(NextIndex(melody.index,
                                                arpeggioState[melody.track + 1].direction,
                                                rBranch, rAmount))]
    /\ UNCHANGED <<trackVars, dialogVars, poolVars, hostVars, oscVoice>>

\* the call returns: the index is written back
MelodyEnd ==
    /\ melody.track >= 0 /\ melody.left = 0
    /\ arpeggioState' = [arpeggioState EXCEPT ![melody.track + 1].index = melody.index]
    /\ melody' = NoCall
    /\ UNCHANGED <<reactVars, seqVars, parts, liveParts, gen, pending, toneVars,
                   audioVars, gestures, dialogVars, poolVars, hostVars, oscVoice>>

NextMelody ==
    \/ \E t \in Tracks, n \in TupletRatios : MelodyBegin(t, n)
    \/ \E rBranch \in Draws, rAmount \in Draws : MelodyNote(rBranch, rAmount)
    \/ MelodyEnd

SpecMelody == InitDialog /\ [][NextMelody]_vars

---------------------------------------------------------------------------
(* Properties of createParts *)

\* the value of a cell of the sequence createParts reads
CellValue(s, t) == Grid(sequenceRef, heap)[s + 1][t + 1]

\* the note parts made for one cell
NotesOf(s, t) == {p \in liveParts : p.kind = "note" /\ p.step = s /\ p.track = t}

\* the note that follows p in its cell
FollowersOf(p) == {q \in NotesOf(p.step, p.track) : q.idx = p.idx + 1}

ShortestDuration == Rat(96, 1000)
LongestDuration == Rat(144, 1000)

CellHasPairs(s, t) ==
    /\ Cardinality(NotesOf(s, t)) = CellValue(s, t)
    /\ \A i \in 0 .. CellValue(s, t) - 1 :
          \E p \in NotesOf(s, t) :
             /\ p.idx = i
             /\ EventTime(p, 1) = Rat(60 * (s * CellValue(s, t) + i), bpm * CellValue(s, t))

StepBeat(k, m) == RInt(k + stepsPerBar * m)

\* C2: at a constant tempo T, step k of the visual part starts at k * 60 / T seconds,
\* every part loops after 8 * 60 / T seconds, and the occurrence of step k that
\* follows the one of pass m lies exactly one loop later: steps keep their grid in
\* every pass
C2_StepGrid ==
    \A p \in liveParts :
        /\ PartLoopEnd(p) = Rat(60 * stepsPerBar, bpm)
        /\ p.kind = "note" /\ p.idx = 0 => EventTime(p, 1) = Rat(60 * p.step, bpm)
        /\ p.kind = "visual" =>
              \A e \in 1 .. NumEvents(p) :
                 /\ EventTime(p, e) = Rat(60 * EventStep(p, e), bpm)
                 /\ \A m \in 0 .. MaxLoops :
                       NextOccurrence(EventOffset(p, e), LoopBeats(p),
                                      StepBeat(EventStep(p, e), m), TRUE)
                          = StepBeat(EventStep(p, e), m + 1)

\* parts have been made for a tempo at the end of the range, with a note on the
\* last step
C2_PartsAtMaxBpm ==
    /\ bpm = MaxBpm /\ tState = "started"
    /\ \E p \in liveParts : p.kind = "visual"
    /\ \E p \in liveParts : p.kind = "note" /\ p.step = stepsPerBar - 1

---------------------------------------------------------------------------
(* Properties of the running component *)

ActiveVoices(v) == {t \in Tracks : v[t].attack + v[t].release > 0}

\* C3 as stated: while playing, currentStep only ever moves to the next step in
\* cyclic order
C3_CyclicOrder ==
    [][isPlaying /\ isPlaying' /\ currentStep' # currentStep =>
          currentStep' = (currentStep + 1) % stepsPerBar]_vars

C5_StopResets ==
    [][/\ isPlaying /\ ~isPlaying' =>
             currentStep' = 0 /\ tTicks' = RInt(0) /\ ~tFired'
       /\ tState = "stopped" /\ tState' = "started" => tTicks' = RInt(0) /\ ~tFired'
       /\ tState = "started" /\ tTicks = RInt(0) /\ ~tFired
            /\ Len(scheduled') > Len(scheduled) =>
             tTicks' = RInt(0) /\ scheduled'[Len(scheduled')].steps = {0}]_vars

\* stopped by the Stop button after the clock had dispatched step 1
C5_StoppedPastStepZero ==
    /\ mounted /\ ~isPlaying /\ gen > 0 /\ pending = <<>>
    /\ tState = "stopped" /\ tTicks = RInt(0) /\ currentStep = 0
    /\ scheduled # <<>> /\ Head(scheduled).steps = {1}

\* C6 as stated: isPlaying (of the mounted component) is true exactly when the
\* Transport runs with parts armed
C6_TwoStates ==
    (mounted /\ isPlaying) <=> (tState = "started" /\ parts # <<>>)

C8_TempoInRange ==
    /\ bpm \in MinBpm .. MaxBpm
    /\ tState = "started" => tBpm \in MinBpm .. MaxBpm

\* the cells a step changes
EditedCells == {c \in Steps \X Tracks : CellValue(c[1], c[2])' # CellValue(c[1], c[2])}

\* C9 (as the code has it): an edit while playing disposes every part and builds a
\* new generation in their place; a note of an unedited cell is built again at the
\* same place of its tuplet; the notes already handed to the audio clock and the
\* voices are left alone
C9_EditRebuildsParts ==
    [][isPlaying /\ isPlaying' /\ heap' # heap =>
          /\ liveParts # {} /\ liveParts' # {} /\ liveParts \cap liveParts' = {}
          /\ \A q \in liveParts' : q.gen = gen'
          /\ \A p \in liveParts :
                p.kind = "note" /\ <<p.step, p.track>> \notin EditedCells =>
                   \E q \in liveParts' :
                      /\ q.kind = "note" /\ q.step = p.step /\ q.track = p.track
                      /\ q.idx = p.idx /\ q.n = p.n
          /\ scheduled' = scheduled /\ voices' = voices]_vars

\* after start and one edit of another cell while playing, the first note of the
\* first cell has a pitch no first generation gives it
C9_UneditedCellRedrawn ==
    /\ mounted /\ isPlaying /\ gestures = 2 /\ gen = 2 /\ pending = <<>>
    /\ CellValue(0, 0) = 2
    /\ \E p \in liveParts :
          /\ p.kind = "note" /\ p.step = 0 /\ p.track = 0 /\ p.idx = 0
          /\ p.note \notin {majorScaleMidi[2], majorScaleMidi[Len(majorScaleMidi)]}

\* C9 as stated: an edit while playing leaves every note part that was scheduled
\* in place
C9_AsStated ==
    [][isPlaying /\ isPlaying' /\ heap' # heap =>
          {p \in liveParts : p.kind = "note"} \subseteq liveParts']_vars

---------------------------------------------------------------------------
(* Properties of the settings dialog *)

Sounding(vs) == {i \in DOMAIN vs : vs[i].phase # "idle"}

\* C10 (as the code has it): a Save that changes the track's settings, and a
\* preview, give the envelope settings of the dialog to every voice the synth holds,
\* sounding or free, and the filter and effect settings to the nodes all voices of
\* the track run through; a Save leaves the phase of every voice as it is
C10_SettingsReachEveryVoice ==
    [][trackSettings' # trackSettings \/ previews' > previews =>
          /\ Len(synthVoices') = Len(synthVoices)
          /\ \A i \in DOMAIN synthVoices :
                /\ synthVoices'[i].env = params.env
                /\ synthVoices'[i].fenv = params.fenv
                /\ synthVoices'[i].phase = synthVoices[i].phase
          /\ chain' = params.fx]_vars

\* a preview waits for Tone.start() while a voice sounds with an envelope that no
\* voice is built with
C10_SoundingVoiceChanged ==
    /\ previews > 0
    /\ \E i \in Sounding(synthVoices) : synthVoices[i].env # NewVoice.env
    /\ chain # DefaultSettings.fx

\* C10 as stated: no step changes the envelope or filter envelope of a voice that
\* sounds, or the chain settings while a voice sounds
C10_AsStated ==
    [][\A i \in Sounding(synthVoices) :
          /\ synthVoices'[i].env = synthVoices[i].env
          /\ synthVoices'[i].fenv = synthVoices[i].fenv
          /\ chain' = chain]_vars

\* C16: while a synth of a track is missing the sequencer stays stopped: no start()
\* is left pending, no part exists, the Transport is stopped and isPlaying is false;
\* and a click on Start in that state changes only the count of reported errors,
\* which it raises by one
C16_StartRefusedWithoutSynths ==
    [][~synthsReady =>
          /\ pending' = <<>> /\ parts' = <<>> /\ liveParts' = {}
          /\ tState' = "stopped" /\ ~isPlaying'
          /\ reported' # reported =>
                /\ reported' = reported + 1 /\ ~synthsReady'
                /\ UNCHANGED <<reactVars, seqVars, partVars, pending, toneVars,
                               audioVars>>]_vars

\* start() has been refused and the component is stopped, the synths still missing
C16_RefusedAndStopped ==
    /\ reported > 0 /\ ~synthsReady
    /\ ~isPlaying /\ tState = "stopped" /\ parts = <<>> /\ pending = <<>>

\* C17 as stated, for the tempo: every event of every part that createParts has
\* made, and the loop end of every part, is at a finite time that is not negative
C17_EventTimesFinite ==
    \A p \in liveParts :
        /\ IsFinite(PartLoopEnd(p)) /\ PartLoopEnd(p).n >= 0
        /\ \A e \in 1 .. NumEvents(p) :
              IsFinite(EventTime(p, e)) /\ EventTime(p, e).n >= 0

---------------------------------------------------------------------------
(* Properties of the voices of a track *)

\* the voices of the synth that are not free
ActivePool(vs) == DOMAIN vs \ FreeVoices(vs)

\* the synth holds maxPolyphony voices and none is free
AtCeiling(vs) == Len(vs) = maxPolyphony /\ FreeVoices(vs) = {}

\* C11 as stated: a synth never holds more than maxPolyphony voices that are not
\* free, and a note triggered while maxPolyphony voices are in use sounds: exactly
\* one voice changes, it is the one whose attack is the oldest, and it now holds
\* the new note
C11_OldestVoiceStolen ==
    [][/\ Cardinality(ActivePool(pool')) <= maxPolyphony
       /\ notesAsked' > notesAsked /\ AtCeiling(pool) =>
             \E i \in DOMAIN pool :
                /\ \A j \in DOMAIN pool : pool[i].on <= pool[j].on
                /\ pool'[i].use = "held" /\ pool'[i].env = "attack"
                /\ pool'[i].on = clock
                /\ \A j \in DOMAIN pool \ {i} : pool'[j] = pool[j]]_vars

\* the checks a step runs on voice i
ChecksRun(i) == pool[i].timers \ pool'[i].timers

C13_ReleasedVoiceReclaimed ==
    \A i \in 1 .. maxPolyphony :
        (i \in DOMAIN pool /\ pool[i].env = "release")
            ~> (i \in DOMAIN pool /\ pool[i].use = "free")

\* a voice is free again after a check, run during its release, had found it not
\* silent
C13_ReclaimedAfterMissedCheck ==
    \E i \in DOMAIN pool : pool[i].use = "free" /\ pool[i].missed

---------------------------------------------------------------------------
(* Properties of getMelodyPattern *)

\* C14: whatever the calls, tracks, tuplet counts and draws so far, the index of the
\* running call and the index kept for every track lie within the scale, and the
\* pitch pushed is a note of the scale
C14_IndexInScale ==
    /\ \A t \in Tracks : arpeggioState[t + 1].index \in 0 .. Len(majorScaleMidi) - 1
    /\ melody.index \in 0 .. Len(majorScaleMidi) - 1
    /\ melody.note # 0 => melody.note \in Range(majorScaleMidi)

\* from the last index of the scale, an arpeggio move of three has wrapped to the
\* third note
C14_WrappedPastEnd ==
    /\ melody.track = 0 /\ arpeggioState[1].index = Len(majorScaleMidi) - 1
    /\ melody.left = MaxTuplet - 1
    /\ melody.index = 2 /\ melody.note = majorScaleMidi[3]

---------------------------------------------------------------------------
(* Properties of the metronome *)

\* the click parts the Transport holds for step s
StepClicks(s) == {p \in liveParts : p.kind = "click" /\ p.step = s}

\* C20 as stated: while the Transport runs with the metronome enabled, every step
\* has exactly 2 clicks, one at stepTime and one at stepTime + secondsPerBeat / 2,
\* and a click is the downbeat click (F6) exactly when it is the first one of a
\* step whose index is a multiple of 4; with the metronome disabled no click
\* is on the Transport
C20_ClicksFollowMetronome ==
    tState = "started" /\ pending = <<>> =>
        \A s \in Steps :
            IF metronomeEnabled
            THEN /\ Cardinality(StepClicks(s)) = 2
                 /\ \A i \in {0, 1} :
                       \E p \in StepClicks(s) :
                          EventTime(p, 1) = Rat(60 * s + 30 * i, p.bpm)
                 /\ \A p \in StepClicks(s) :
                       p.note = 89 <=>
                          (s % 4 = 0 /\ EventTime(p, 1) = Rat(60 * s, p.bpm))
            ELSE StepClicks(s) = {}

---------------------------------------------------------------------------
(* Properties of late callbacks *)

\* the audio clock reaches an instant whose callbacks ran late
LateReached ==
    scheduled # <<>> /\ Head(scheduled).late /\ scheduled' = Tail(scheduled)

\* an event of parts made in mid-loop whose position the Transport has passed is
\* not dispatched in this pass: the position of the Transport never goes back
\* while it runs
PastEventsWait ==
    [][tState = "started" /\ tState' = "started" => RLe(tTicks, tTicks')]_vars

\* C18 as stated: a note whose trigger time has passed when its callback runs is
\* dropped, no voice attacks for it, and playback stays in Playing
C18_LateNoteDropped ==
    [][LateReached => voices' = voices /\ isPlaying' = isPlaying]_vars

---------------------------------------------------------------------------
(* The scenario of tempo 60 with a tuplet of 2 in step 0 of track 0 *)

TupletAtSixty == bpm = 60 /\ liveParts # {} /\ CellValue(0, 0) = 2

\* the time from the trigger of a note to its release
HeldFor(p) == RSub(ReleaseTime(p), EventTime(p, 1))

TwoTriggers ==
    /\ Cardinality(NotesOf(0, 0)) = 2
    /\ {EventTime(p, 1) : p \in NotesOf(0, 0)} = {RInt(0), Rat(1, 2)}

\* C21 (as the code has it): at tempo 60 with a tuplet count of 2 in step 0 of
\* track 0 the two notes trigger at 0.0 s and 0.5 s after the step start, and
\* every note is released between 0.096 s and 0.144 s after its own trigger
C21_TupletAtSixty ==
    TupletAtSixty =>
        /\ TwoTriggers
        /\ \A p \in NotesOf(0, 0) :
              /\ RLe(ShortestDuration, HeldFor(p))
              /\ RLt(HeldFor(p), LongestDuration)

\* the scenario with a note that sounds for more than 0.12 s
C21_ReleasedAfterBase ==
    TupletAtSixty /\ \E p \in NotesOf(0, 0) : RLt(Rat(12, 100), HeldFor(p))

\* C21 as stated: the two notes trigger at 0.0 s and 0.5 s and every note is
\* released at most 0.12 s after its own trigger
C21_AsStated ==
    TupletAtSixty =>
        /\ TwoTriggers
        /\ \A p \in NotesOf(0, 0) : RLe(HeldFor(p), Rat(12, 100))

---------------------------------------------------------------------------
(* Properties of the volume and mute of a track *)

\* C22 as stated: an initialized track whose mute flag is set has synth volume
\* minus infinity, and an unmuted one has the volume chosen for it, which is finite
C22_MuteIsMinusInfinity ==
    synthsReady =>
        /\ trackMute => synthVolume.value = MinusInfinity
        /\ ~trackMute => synthVolume.value = RInt(trackVolume) /\ IsFinite(synthVolume.value)

---------------------------------------------------------------------------
(* Properties of a dialog closed without Save *)

\* the dialog closes with edits that were not saved
ClosedUnsaved ==
    dlgOpen /\ ~dlgOpen' /\ params # trackSettings /\ trackSettings' = trackSettings

\* the voices the track had when the dialog was opened have the settings they had
SameVoices(was, vs) ==
    \A i \in DOMAIN was :
        i \in DOMAIN vs /\ vs[i].env = was[i].env /\ vs[i].fenv = was[i].fenv

\* C23 as stated: when the dialog is closed without Save, the synth settings of
\* the track's voices, the settings of its filter and effects and its stored
\* settings are what they were before the dialog was opened
C23_CloseRestoresTrack ==
    [][ClosedUnsaved =>
          /\ SameVoices(atOpen.voices, synthVoices')
          /\ chain' = atOpen.chain
          /\ trackSettings' = atOpen.stored]_vars

---------------------------------------------------------------------------
(* Properties of the sequence the parts are made from *)

\* C24 as stated: an edit of a cell leaves the step arrays of the sequence that
\* sequenceRef held before the edit as they were: read again after the edit, that
\* snapshot still gives the old value of every cell
C24_SnapshotKeepsOldCells ==
    [][heap' # heap => Grid(sequenceRef, heap') = Grid(sequenceRef, heap)]_vars

---------------------------------------------------------------------------
(* Properties of the order of the parts *)

\* p comes before q in step order, then track order, then order of the notes of
\* the tuplet
Precedes(p, q) ==
    \/ p.step < q.step
    \/ p.step = q.step /\ p.track < q.track
    \/ p.step = q.step /\ p.track = q.track /\ p.idx < q.idx

NotesOfGen(g) == {p \in liveParts : p.gen = g /\ p.kind = "note"}

\* C25: the note parts of one createParts call are pushed in step order, then
\* track order within a step, then in the order of the notes of the cell, and
\* partsRef, which start() and the sequence effect walk to start the parts, holds
\* the parts of the call in the order they were pushed
C25_PartsInStepTrackNoteOrder ==
    /\ \A g \in 1 .. MaxGen :
          \A p \in NotesOfGen(g), q \in NotesOfGen(g) : p.k < q.k <=> Precedes(p, q)
    /\ \A i \in DOMAIN parts : parts[i] = <<gen, i>>

\* parts have been made for a step with a tuplet on the first track and a note on
\* the second
C25_TwoTracksInOneStep ==
    \E p \in NotesOfGen(gen), q \in NotesOfGen(gen) :
        /\ Ref(p) \in Range(parts) /\ Ref(q) \in Range(parts)
        /\ p.step = q.step /\ p.track = 0 /\ p.idx = 1 /\ q.track = 1

---------------------------------------------------------------------------
(* Properties of the oscillator mix *)

\* C26 as stated: a voice built for a track whose settings have oscMix m mixes
\* oscillator 1 with gain 1 - m and oscillator 2 with gain m, from m = 0, only
\* oscillator 1, to m = 1, only oscillator 2
C26_GainsFollowOscMix ==
    oscVoice.gains.built =>
        /\ oscVoice.gains.osc1Gain = Rat(100 - oscVoice.oscMix, 100)
        /\ oscVoice.gains.osc2Gain = Rat(oscVoice.oscMix, 100)

---------------------------------------------------------------------------
(* Properties of the parts partsRef holds *)

\* every part that was made and not disposed is in partsRef
NoPartOutsideList == \A p \in liveParts : Ref(p) \in Range(parts)

\* partsRef holds parts of one createParts call only
OneGeneration == \A i \in DOMAIN parts, j \in DOMAIN parts : parts[i][1] = parts[j][1]

\* C27 as stated: every part ever made is in partsRef or disposed, partsRef holds
\* the parts of at most one createParts call, and it is empty whenever the
\* sequencer is stopped
C27_PartsNeverLeak ==
    /\ NoPartOutsideList
    /\ OneGeneration
    /\ ~isPlaying => parts = <<>>

---------------------------------------------------------------------------
(* Properties of the step display after stop() *)

\* C28 as stated: from the stop() that set currentStep to 0 until the next
\* start(), currentStep is 0: no callback handed to Tone.Draw before the stop
\* changes it afterwards
C28_StepStaysZeroAfterStop ==
    ~isPlaying /\ pending = <<>> => currentStep = 0

---------------------------------------------------------------------------
(* Properties of the silence checks of a voice *)

\* C29 as stated: a voice is reported silent at most once per note: a check that
\* finds the level under 0.001, and so calls onsilence, runs on a voice that has
\* not been reported silent since its last note
C29_SilentOncePerNote ==
    [][\A i \in DOMAIN pool :
          ChecksRun(i) # {} /\ getLevelAtTime(pool[i], clock) < SilenceLevel
              => pool[i].use # "free"]_vars

---------------------------------------------------------------------------
(* Properties of the preview of the settings dialog *)

===========================================================================
